---- MODULE Spec2Model ----
(***************************************************************************)
(* Model of src/main.js: transformErrors and its helpers, over Immutable   *)
(* collections.                                                            *)
(*                                                                         *)
(* A value is a record [kind, val]:                                        *)
(*   kind = "str"   val = the characters of a JavaScript string            *)
(*   kind = "list"  val = the elements of an Immutable.List                *)
(*   kind = "map"   val = the entries <<key, value>> of an Immutable.Map,  *)
(*                        in iteration order                               *)
(*   kind = "num"   a number (the model's only number is 5)                *)
(*   kind = "null"  null                                                   *)
(*   kind = "err"   a TypeError thrown instead of a value                  *)
(* A string is a sequence of tokens.  The tokens "List [", "Map {",        *)
(* "List []" and "Map {}" stand for those literal substrings of the text   *)
(* Immutable's toString() produces.                                        *)
(***************************************************************************)
EXTENDS Naturals, Sequences, FiniteSets, TLC

VARIABLES
    errors,            \* the `errors` argument of the running call (a "map" value)
    keysToKeepNested,  \* the `keysToKeepNested` argument (an array of keys)
    immutableMajor,    \* major version of the immutable package that is installed
    pc,                \* "idle", "mapping", "returned" or "thrown"
    idx,               \* position of Map.map's iteration over the entries
    result,            \* entries of the mapping built so far
    reapplied,         \* TRUE once the call's own output has been passed back in
    firstErrors        \* the `errors` argument of the first call

vars == <<errors, keysToKeepNested, immutableMajor, pc, idx, result, reapplied, firstErrors>>

-----------------------------------------------------------------------------
(* Values *)

Str(s) == [kind |-> "str", val |-> s]
List(xs) == [kind |-> "list", val |-> xs]
Map(entries) == [kind |-> "map", val |-> entries]
Num == [kind |-> "num", val |-> <<>>]
Null == [kind |-> "null", val |-> <<>>]
TypeError == [kind |-> "err", val |-> <<>>]

isMap(data) == data.kind = "map"
isCollection(data) == data.kind \in {"map", "list"}

\* The values a collection iterates over.
Values(data) ==
    IF data.kind = "map" THEN [i \in 1..Len(data.val) |-> data.val[i][2]]
    ELSE data.val

\* collection.map(fn) given the already mapped values: keys and kind are kept,
\* and an exception thrown by fn for any element propagates.
Rebuild(data, mapped) ==
    IF \E i \in 1..Len(mapped) : mapped[i] = TypeError THEN TypeError
    ELSE IF data.kind = "map"
         THEN Map([i \in 1..Len(mapped) |-> <<data.val[i][1], mapped[i]>>])
         ELSE List(mapped)

-----------------------------------------------------------------------------
(* Strings *)

RECURSIVE trimStart(_)
trimStart(s) ==
    IF s = <<>> THEN s
    ELSE IF Head(s) = " " THEN trimStart(Tail(s)) ELSE s

RECURSIVE trimEnd(_)
trimEnd(s) ==
    IF s = <<>> THEN s
    ELSE IF s[Len(s)] = " " THEN trimEnd(SubSeq(s, 1, Len(s) - 1)) ELSE s

\* String.prototype.trim
trim(s) == trimEnd(trimStart(s))

\* Collection.join(separator) over already stringified items
RECURSIVE join(_, _)
join(items, separator) ==
    IF items = <<>> THEN <<>>
    ELSE IF Len(items) = 1 THEN items[1]
    ELSE items[1] \o separator \o join(Tail(items), separator)

\* Collection.toString(): List [ "a", "b" ], Map { "k": v }, List [], Map {}
RECURSIVE toString(_)
quoteString(data) ==
    CASE data.kind = "str" -> <<"\"">> \o data.val \o <<"\"">>
      [] data.kind = "num" -> <<"5">>
      [] data.kind = "null" -> <<"null">>
      [] OTHER -> toString(data)
toString(data) ==
    CASE data.kind = "str" -> data.val
      [] data.kind = "num" -> <<"5">>
      [] data.kind = "list" ->
            IF data.val = <<>> THEN <<"List []">>
            ELSE <<"List [", " ">>
                 \o join([i \in 1..Len(data.val) |-> quoteString(data.val[i])], <<",", " ">>)
                 \o <<" ", "]">>
      [] data.kind = "map" ->
            IF data.val = <<>> THEN <<"Map {}">>
            ELSE <<"Map {", " ">>
                 \o join([i \in 1..Len(data.val) |->
                            <<"\"", data.val[i][1], "\"", ":", " ">>
                            \o quoteString(data.val[i][2])], <<",", " ">>)
                 \o <<" ", "}">>
      [] OTHER -> <<>>

\* What join() writes for one element: '' for null, toString() otherwise.
joinItem(data) == IF data.kind = "null" THEN <<>> ELSE toString(data)

-----------------------------------------------------------------------------
(* Immutable.Set *)

\* The distinct elements of xs by value equality, in first-insertion order.
RECURSIVE Distinct(_)
Distinct(xs) ==
    IF xs = <<>> THEN <<>>
    ELSE LET rest == Distinct(SubSeq(xs, 1, Len(xs) - 1))
             last == xs[Len(xs)]
         IN IF \E i \in 1..Len(rest) : rest[i] = last THEN rest ELSE Append(rest, last)

\* isArrayLike(''): false in immutable 3 (value && typeof value.length === 'number'),
\* true in immutable 4 (typeof value === 'string').
emptyStringIsArrayLike == immutableMajor = 4

\* Immutable.Set(data) throws ("Expected Array or iterable object of values")
\* for a value that is neither null, a collection nor array-like.
SetRejects(data) ==
    \/ data.kind \in {"num", "err"}
    \/ data.kind = "str" /\ data.val = <<>> /\ ~emptyStringIsArrayLike

\* The elements Immutable.Set(data) is built from: the elements of a List, the
\* characters of a string, the [key, value] entries of a Map, nothing for null.
SetSource(data) ==
    CASE data.kind = "list" -> data.val
      [] data.kind = "str" -> [i \in 1..Len(data.val) |-> Str(<<data.val[i]>>)]
      [] data.kind = "map" ->
            [i \in 1..Len(data.val) |->
                Str(<<data.val[i][1], ",">> \o joinItem(data.val[i][2]))]
      [] OTHER -> <<>>

-----------------------------------------------------------------------------
(* src/main.js *)

\* The separator given to join: a period and a space.
Separator == <<".", " ">>

\* createString without the deduplicating Set.
createString_KeepsDuplicates(data) ==
    IF SetRejects(data) THEN TypeError
    ELSE LET withSentinel == Append(SetSource(data), Str(<<>>))
         IN Str(trim(join([i \in 1..Len(withSentinel) |-> joinItem(withSentinel[i])],
                          Separator)))

\* createString that hands a string back as it is.
createString_StringsUnchanged(data) ==
    IF data.kind = "str" THEN data
    ELSE IF SetRejects(data) THEN TypeError
    ELSE LET set == Distinct(SetSource(data))
             withSentinel == Distinct(Append(set, Str(<<>>)))
         IN Str(trim(join([i \in 1..Len(withSentinel) |-> joinItem(withSentinel[i])],
                          Separator)))

createString(data) ==
    IF SetRejects(data) THEN TypeError
    ELSE LET set == Distinct(SetSource(data))
             withSentinel == Distinct(Append(set, Str(<<>>)))
         IN Str(trim(join([i \in 1..Len(withSentinel) |-> joinItem(withSentinel[i])],
                          Separator)))

\* transformData that joins every child, mappings included.
transformData_NoRecursion(data) ==
    IF ~isCollection(data) THEN TypeError
    ELSE LET children == Values(data)
         IN Rebuild(data, [i \in 1..Len(children) |-> createString(children[i])])

RECURSIVE transformData(_)
transformData(data) ==
    IF ~isCollection(data) THEN TypeError
    ELSE LET children == Values(data)
         IN Rebuild(data, [i \in 1..Len(children) |->
                              IF isMap(children[i]) THEN transformData(children[i])
                              ELSE createString(children[i])])

\* The filter predicate `data.length || !data.isEmpty()` throws for a value
\* with a falsy length and no isEmpty method.
NonEmptyThrows(child) ==
    \/ child.kind \in {"num", "null"}
    \/ child.kind = "str" /\ child.val = <<>>

\* For a value the predicate accepts without throwing: a non-empty string has
\* a truthy length, a collection has no length and answers isEmpty().
NonEmpty(child) == child.val # <<>>

getNonEmptyCollections(data) ==
    IF ~isCollection(data) THEN TypeError
    ELSE IF \E i \in 1..Len(data.val) : NonEmptyThrows(Values(data)[i]) THEN TypeError
    ELSE IF isMap(data) THEN Map(SelectSeq(data.val, LAMBDA e : NonEmpty(e[2])))
    ELSE List(SelectSeq(data.val, NonEmpty))

\* Collection.flatten(): the non-collection values of data, depth first.
RECURSIVE flatten(_)
flatten(data) ==
    IF ~isCollection(data) THEN <<data>>
    ELSE LET children == Values(data)
             RECURSIVE Concat(_)
             Concat(i) == IF i > Len(children) THEN <<>>
                          ELSE flatten(children[i]) \o Concat(i + 1)
         IN Concat(1)

\* flattenCollection without the call of flatten().
flattenCollection_NotFlattened(data) == List(Values(data))

flattenCollection(data) == List(flatten(List(Values(data))))

\* hasMap that answers false for a value without an includes method.
hasMapThrows_Never(data) == data.kind = "err"

\* `data.includes(...)` is not a function of a number, and null has no properties.
hasMapThrows(data) == data.kind \in {"num", "null", "err"}

\* hasMap without the isMap(data) alternative.
hasMap_ContainsOnly(data) ==
    /\ isCollection(data)
    /\ \E i \in 1..Len(data.val) : Values(data)[i] = Map(<<>>)

\* data.includes(Immutable.Map()) || Immutable.Map.isMap(data): a collection
\* includes a value equal to the empty Map; a string includes the text "Map {}".
hasMap(data) ==
    \/ /\ isCollection(data)
       /\ \E i \in 1..Len(data.val) : Values(data)[i] = Map(<<>>)
    \/ /\ data.kind = "str"
       /\ \E i \in 1..Len(data.val) : data.val[i] = "Map {}"
    \/ isMap(data)

\* keepNested that looks at the first key of the array only.
keepNested_FirstOnly(keys, key) == Len(keys) > 0 /\ keys[1] = key

keepNested(keys, key) == \E i \in 1..Len(keys) : keys[i] = key

transformCollection(data) ==
    IF hasMapThrows(data) THEN TypeError
    ELSE IF hasMap(data) THEN transformData(data)
    ELSE createString(data)

transformCollectionFlat(data) ==
    LET nonEmpty == getNonEmptyCollections(data)
    IN IF nonEmpty = TypeError THEN TypeError
       ELSE transformCollection(flattenCollection(nonEmpty))

\* The callback transformErrors gives to Map.map.
transformEntry(keys, key, data) ==
    IF keepNested(keys, key) THEN transformCollection(data)
    ELSE transformCollectionFlat(data)

-----------------------------------------------------------------------------
(* Inputs *)

MaxNodes == 3

TopKeys == <<"name", "email">>
NestedKeys == <<"first", "last">>
KeyArrays == {<<>>, <<"name">>, <<"email", "name">>}

Leaves == {Str(<<>>), Str(<<"a">>), Str(<<"b">>), Num, Null}

Keyed(keys, forest) == [i \in 1..Len(forest) |-> <<keys[i], forest[i]>>]

\* The values made of exactly n nodes, and the sequences of values of n nodes
\* in all.
RECURSIVE TreesOfSize(_), ForestsOfSize(_)
TreesOfSize(n) ==
    IF n = 0 THEN {}
    ELSE (IF n = 1 THEN Leaves ELSE {})
         \cup {List(f) : f \in ForestsOfSize(n - 1)}
         \cup {Map(Keyed(NestedKeys, f)) :
                 f \in {g \in ForestsOfSize(n - 1) : Len(g) <= Len(NestedKeys)}}
ForestsOfSize(n) ==
    IF n = 0 THEN {<<>>}
    ELSE UNION {{<<t>> \o f : t \in TreesOfSize(k), f \in ForestsOfSize(n - k)} :
                  k \in 1..n}

Inputs ==
    {Map(Keyed(TopKeys, f)) :
        f \in {g \in UNION {ForestsOfSize(n) : n \in 0..MaxNodes} : Len(g) <= Len(TopKeys)}}

Required == <<"R", "e", "q", "u", "i", "r", "e", "d">>
TooLong == <<"T", "o", "o", " ", "l", "o", "n", "g">>

\* { name: { first: ["Required"], last: ["Required", "Too long"] } }
NameErrors ==
    Map(<<<<"first", List(<<Str(Required)>>)>>,
          <<"last", List(<<Str(Required), Str(TooLong)>>)>>>>)
Example == Map(<<<<"name", NameErrors>>>>)

Invalid == <<"I", "n", "v", "a", "l", "i", "d">>

\* { name: {...}, email: ["Invalid", "Invalid"] }
MixedExample ==
    Map(<<<<"name", NameErrors>>, <<"email", List(<<Str(Invalid), Str(Invalid)>>)>>>>)

TooShort == <<"T", "o", "o", " ", "s", "h", "o", "r", "t">>

\* { email: ["Required", "Required", "Too short"] }
DedupExample ==
    Map(<<<<"email", List(<<Str(Required), Str(Required), Str(TooShort)>>)>>>>)

-----------------------------------------------------------------------------
(* transformErrors(errors, keysToKeepNested) *)

Init ==
    /\ errors \in Inputs \cup {Example, MixedExample, DedupExample}
    /\ keysToKeepNested \in KeyArrays
    /\ immutableMajor \in {3, 4}
    /\ pc = "idle"
    /\ idx = 0
    /\ result = <<>>
    /\ reapplied = FALSE
    /\ firstErrors = errors

\* Immutable.Map(errors).map(...) starts iterating the entries.
Call ==
    /\ pc = "idle"
    /\ pc' = "mapping"
    /\ idx' = 1
    /\ result' = <<>>
    /\ UNCHANGED <<errors, keysToKeepNested, immutableMajor, reapplied, firstErrors>>

\* The callback runs for the next entry; an exception ends the call with no result.
MapEntry ==
    /\ pc = "mapping"
    /\ idx <= Len(errors.val)
    /\ LET key == errors.val[idx][1]
           data == errors.val[idx][2]
           value == transformEntry(keysToKeepNested, key, data)
       IN IF value = TypeError
          THEN /\ pc' = "thrown"
               /\ result' = <<>>
               /\ idx' = idx
          ELSE /\ pc' = pc
               /\ result' = Append(result, <<key, value>>)
               /\ idx' = idx + 1
    /\ UNCHANGED <<errors, keysToKeepNested, immutableMajor, reapplied, firstErrors>>

Return ==
    /\ pc = "mapping"
    /\ idx > Len(errors.val)
    /\ pc' = "returned"
    /\ UNCHANGED <<errors, keysToKeepNested, immutableMajor, idx, result, reapplied, firstErrors>>

\* The caller passes the returned mapping back in with the same keysToKeepNested.
Reapply ==
    /\ pc = "returned"
    /\ ~reapplied
    /\ errors' = Map(result)
    /\ reapplied' = TRUE
    /\ pc' = "idle"
    /\ idx' = 0
    /\ result' = <<>>
    /\ UNCHANGED <<keysToKeepNested, immutableMajor, firstErrors>>

Next == Call \/ MapEntry \/ Return \/ Reapply

Spec == Init /\ [][Next]_vars

-----------------------------------------------------------------------------
(* Vocabulary of the properties *)

EmptyMap == Map(<<>>)
EmptyList == List(<<>>)
EmptyString == Str(<<>>)

Finished == pc \in {"returned", "thrown"}
KeySet(keys) == {keys[i] : i \in 1..Len(keys)}
Entries == 1..Len(errors.val)
KeyAt(i) == errors.val[i][1]
DataAt(i) == errors.val[i][2]
Kept(i) == KeyAt(i) \in KeySet(keysToKeepNested)
\* Entry i has been transformed and its value is part of the result.
Transformed(i) == pc \in {"mapping", "returned"} /\ i <= Len(result)
\* The callback threw on entry i.
ThrewAt(i) == pc = "thrown" /\ idx = i

\* An ErrorTree: mappings and sequences over string leaves.
RECURSIVE Valid(_)
Valid(data) ==
    \/ data.kind = "str"
    \/ /\ isCollection(data)
       /\ \A i \in 1..Len(data.val) : Valid(Values(data)[i])

\* The leaf strings of a subtree.
RECURSIVE LeafStrings(_)
LeafStrings(data) ==
    IF data.kind = "str" THEN {data.val}
    ELSE IF isCollection(data)
         THEN UNION {LeafStrings(Values(data)[i]) : i \in 1..Len(data.val)}
         ELSE {}

\* A message that is not empty, has no whitespace at either end and does not
\* contain the separator.
PlainLeaf(s) ==
    /\ s # <<>>
    /\ s[1] # " "
    /\ s[Len(s)] # " "
    /\ \A i \in 1..(Len(s) - 1) : ~(s[i] = "." /\ s[i + 1] = " ")

PlainTree(data) == Valid(data) /\ \A s \in LeafStrings(data) : PlainLeaf(s)

ListOfLeaves(data) ==
    data.kind = "list" /\ \A i \in 1..Len(data.val) : data.val[i].kind = "str"

\* s.split(". ")
RECURSIVE Split(_)
Split(s) ==
    IF \E i \in 1..(Len(s) - 1) : s[i] = "." /\ s[i + 1] = " "
    THEN LET i == CHOOSE j \in 1..(Len(s) - 1) :
                     /\ s[j] = "." /\ s[j + 1] = " "
                     /\ \A k \in 1..(j - 1) : ~(s[k] = "." /\ s[k + 1] = " ")
         IN <<SubSeq(s, 1, i - 1)>> \o Split(SubSeq(s, i + 2, Len(s)))
    ELSE <<s>>

Segments(s) == {Split(s)[i] : i \in 1..Len(Split(s))}

\* s is made of the messages of `leaves`, each exactly once and each closed by
\* a period, with single spaces between them; it is empty when there are none.
Sentences(s, leaves) ==
    IF leaves = {} THEN s = <<>>
    ELSE /\ s # <<>>
         /\ s[Len(s)] = "."
         /\ LET segs == Split(SubSeq(s, 1, Len(s) - 1))
            IN /\ Len(segs) = Cardinality(leaves)
               /\ {segs[i] : i \in 1..Len(segs)} = leaves

\* s is made of the messages of `leaves` separated by ". " and nothing else.
SegmentsAre(s, leaves) ==
    IF leaves = {} THEN s = <<>>
    ELSE Segments(s) = leaves /\ Len(Split(s)) = Cardinality(leaves)

-----------------------------------------------------------------------------
(* C1 *)

\* C1: the call maps every top-level key of `errors`, and only those, in
\* place: the value of a key that is a member of keysToKeepNested is
\* transformCollection of its input value, the value of any other key is
\* transformCollectionFlat of its input value, whatever the other keys hold;
\* the call throws exactly at the first key whose own value makes its
\* transformation throw.
C1_KeysAndDispatch ==
    LET expected(i) == IF Kept(i) THEN transformCollection(DataAt(i))
                       ELSE transformCollectionFlat(DataAt(i))
    IN /\ pc \in {"mapping", "returned"} =>
            /\ Len(result) <= Len(errors.val)
            /\ pc = "returned" => Len(result) = Len(errors.val)
            /\ \A i \in 1..Len(result) :
                  /\ result[i][1] = KeyAt(i)
                  /\ result[i][2] = expected(i)
                  /\ result[i][2] # TypeError
       /\ pc = "thrown" =>
            /\ idx \in Entries
            /\ expected(idx) = TypeError
            /\ \A i \in 1..(idx - 1) : expected(i) # TypeError

\* A call returned for two keys, one kept nested and one flattened, with a key
\* in keysToKeepNested that `errors` does not have.
C1_Witness ==
    /\ pc = "returned"
    /\ Len(errors.val) = 2
    /\ Kept(1) /\ ~Kept(2)
    /\ result[1][2].kind = "map"
    /\ result[2][2].kind = "str"
    /\ errors = MixedExample

-----------------------------------------------------------------------------
(* C6 *)

\* C6: empty inputs never throw and give empty outputs: the empty mapping
\* gives the empty mapping; an empty sequence or mapping under a flattened key
\* gives ""; under a kept key the empty mapping stays the empty mapping and the
\* empty sequence gives "".
C6_EmptyInputs ==
    /\ (errors.val = <<>> /\ pc # "idle") => (pc # "thrown" /\ result = <<>>)
    /\ \A i \in Entries :
          DataAt(i) \in {EmptyMap, EmptyList} =>
             /\ ~ThrewAt(i)
             /\ Transformed(i) =>
                   result[i][2] = IF Kept(i) /\ DataAt(i) = EmptyMap THEN EmptyMap
                                  ELSE EmptyString

\* A call returned "" for a flattened empty mapping and the empty mapping for a
\* kept one.
C6_Witness ==
    /\ pc = "returned"
    /\ Len(errors.val) = 2
    /\ DataAt(1) = EmptyMap /\ Kept(1) /\ result[1][2] = EmptyMap
    /\ DataAt(2) = EmptyMap /\ ~Kept(2) /\ result[2][2] = EmptyString

-----------------------------------------------------------------------------
(* C4 *)

\* Entry i is kept nested and its value is a sequence of plain messages, so the
\* call hands that sequence to createString as it is.
JoinedDirectly(i) ==
    /\ Kept(i)
    /\ ListOfLeaves(DataAt(i))
    /\ PlainTree(DataAt(i))
    /\ Transformed(i)

AllDifferent(xs) == \A i, j \in 1..Len(xs) : xs[i] = xs[j] => i = j

-----------------------------------------------------------------------------
(* C2 *)

\* Entry i is flattened and its value is a mapping or sequence over plain
\* messages.
FlattenedTree(i) ==
    /\ ~Kept(i)
    /\ isCollection(DataAt(i))
    /\ PlainTree(DataAt(i))

-----------------------------------------------------------------------------
(* C3 *)

\* out keeps the keys of the mapping `data` at every level reached through
\* mappings alone; every other child has become one string, which for a
\* sequence of plain messages is made of its distinct messages, each closed by
\* a period.
RECURSIVE KeptShape(_, _)
KeptShape(data, out) ==
    /\ out.kind = "map"
    /\ Len(out.val) = Len(data.val)
    /\ \A j \in 1..Len(data.val) :
          LET child == data.val[j][2]
              o == out.val[j][2]
          IN /\ out.val[j][1] = data.val[j][1]
             /\ IF isMap(child) THEN KeptShape(child, o)
                ELSE /\ o.kind = "str"
                     /\ (ListOfLeaves(child) /\ PlainTree(child)) =>
                           Sentences(o.val, LeafStrings(child))

RECURSIVE StatedShape(_, _)
StatedShape(data, out) ==
    IF data.kind = "str" THEN out.kind = "str"
    ELSE IF ListOfLeaves(data)
         THEN out.kind = "str" /\ SegmentsAre(out.val, LeafStrings(data))
         ELSE /\ out.kind = data.kind
              /\ Len(out.val) = Len(data.val)
              /\ \A j \in 1..Len(data.val) :
                    /\ isMap(data) => out.val[j][1] = data.val[j][1]
                    /\ StatedShape(Values(data)[j], Values(out)[j])

-----------------------------------------------------------------------------
(* C5 *)

Characters(s) == {<<s[i]>> : i \in 1..Len(s)}

-----------------------------------------------------------------------------
(* C7 *)

\* The rule C7 states: a mapping, or a sequence with a mapping, empty or not,
\* among its immediate elements.
StatedNested(data) ==
    \/ isMap(data)
    \/ data.kind = "list" /\ \E j \in 1..Len(data.val) : isMap(data.val[j])

\* C7: hasMap holds of a node exactly when it is a mapping or a sequence with
\* at least one mapping among its immediate elements, so that under a kept key
\* every sequence containing a mapping is recursed into and not joined.
C7_HasMapFindsAnyMapping ==
    \A i \in Entries :
       (~reapplied /\ Kept(i) /\ Valid(DataAt(i)) /\ Transformed(i)) =>
          /\ hasMap(DataAt(i)) <=> StatedNested(DataAt(i))
          /\ (DataAt(i).kind = "list" /\ StatedNested(DataAt(i))) =>
                result[i][2].kind = "list"

-----------------------------------------------------------------------------
(* C8 *)

HasMapText(s) == \E i \in 1..Len(s) : s[i] \in {"Map {", "Map {}"}

\* No string of the subtree holds the text of a stringified mapping.
RECURSIVE NoMapJoined(_)
NoMapJoined(out) ==
    IF out.kind = "str" THEN ~HasMapText(out.val)
    ELSE \A j \in 1..Len(out.val) : NoMapJoined(Values(out)[j])

\* C8: when the traversal recurses into a nested node, each child is decided by
\* hasMap again: a child sequence that hasMap holds of is recursed into rather
\* than joined, and no mapping under a kept key ever reaches createString.
C8_ChildrenRechecked ==
    \A i \in Entries :
       (~reapplied /\ Kept(i) /\ isMap(DataAt(i)) /\ Valid(DataAt(i)) /\ Transformed(i)) =>
          /\ \A j \in 1..Len(DataAt(i).val) :
                LET child == DataAt(i).val[j][2]
                IN (child.kind = "list" /\ hasMap(child)) =>
                      result[i][2].val[j][2].kind = "list"
          /\ NoMapJoined(result[i][2])

-----------------------------------------------------------------------------
(* C9 *)

\* C9: the prune stage returns without error for every container: under a
\* flattened key a mapping or sequence with an empty-string child still gives
\* a string.
C9_PruneNeverThrows ==
    \A i \in Entries :
       (~reapplied /\ ~Kept(i) /\ isCollection(DataAt(i)) /\ Valid(DataAt(i))) =>
          /\ ~ThrewAt(i)
          /\ Transformed(i) => result[i][2].kind = "str"

-----------------------------------------------------------------------------
(* C10 *)

Malformed(data) == data.kind \in {"num", "null"}

HasMalformedChild(data) ==
    isCollection(data) /\ \E j \in 1..Len(data.val) : Malformed(Values(data)[j])

\* Every immediate child is a collection or a non-empty string.
ChildrenPrunable(data) ==
    /\ isCollection(data)
    /\ \A j \in 1..Len(data.val) :
          \/ isCollection(Values(data)[j])
          \/ Values(data)[j].kind = "str" /\ Values(data)[j].val # <<>>

====
